---- MODULE Spec2Model ----
(***************************************************************************)
(* Model of src/db_replicator.py: the per-database replicator of           *)
(* mysql_ch_replicator.  State (class State), the in-memory buffers of     *)
(* DbReplicator, the persisted state file, the target database and the     *)
(* binlog are the variables; every method of DbReplicator is an operator   *)
(* over a record of the replicator's memory and its collaborators, and the *)
(* actions are the steps of DbReplicator.run between which the process can *)
(* be killed and restarted.  In the realtime loop a call of the target may *)
(* raise: the exception leaves run and the process ends.                   *)
(*                                                                         *)
(* Python values: None is the empty tuple, a value x that may be None is   *)
(* the one-element tuple <<x>>.  A transaction id (file name, offset) is   *)
(* its rank in the binlog: event number i of the binlog has transaction id *)
(* i, and 0 is the position before the first event.  A row is <<pk, val>>. *)
(* A Python list index i is i + 1 here.                                    *)
(***************************************************************************)
EXTENDS Integers, Sequences, FiniteSets, TLC

\* ------------------------------------------------------------- bounds
\* Events the source writes to the binlog in one behaviour.
MaxLog == 2
\* Times the process is killed and started again.
MaxRestarts == 1
\* Page size of the snapshot (50000 in the source) and flush threshold
\* (10000 in the source), scaled to the model's tables.
INITIAL_REPLICATION_BATCH_SIZE == 2
DATA_DUMP_BATCH_SIZE == 2

\* ------------------------------------------------------ Python values
None == <<>>
Some(x) == <<x>>

Range(seq) == {seq[i] : i \in DOMAIN seq}

\* dict.update: the entries of g over those of f.
MapUpdate(f, g) ==
    [k \in DOMAIN f \cup DOMAIN g |-> IF k \in DOMAIN g THEN g[k] ELSE f[k]]

\* dict.pop(k, None) for every k of ks.
MapRemove(f, ks) == [k \in DOMAIN f \ ks |-> f[k]]

EmptyMap == [k \in {} |-> None]

\* --------------------------------------------------------- the source
\* mysql_api.get_tables(): the tables of the source database at bootstrap.
Tables == <<"u", "s">>
\* Every table name of the model; "n" exists only once a CREATE TABLE
\* event made it.
AllTables == {"u", "s", "n"}

\* The ClickHouse type of the primary key column of each table.
PkType(t) == IF t = "s" THEN "String" ELSE "Int32"

\* 'Int' in primary_key_type, over the types of the model.
HasInt(type) == type \in {"Int32"}

\* The rows of the source tables when the snapshot runs.
SourceRows(t) ==
    CASE t = "u" -> {<<1, "a">>, <<2, "a">>, <<3, "a">>}
      [] t = "s" -> {<<"Alice", "a">>, <<"Zed", "a">>}
      [] OTHER -> {}

\* The strings of the model in the order Python's max and the source's
\* ORDER BY give them ('Alice' < 'None' < 'Zed' by code point and by a
\* case-insensitive collation alike).
StrRank(x) ==
    CASE x = "Alice" -> 1
      [] x = "None" -> 2
      [] x = "Zed" -> 3

Strings == {"Alice", "None", "Zed"}

\* a < b on primary keys of one type.
PkLess(type, a, b) == IF HasInt(type) THEN a < b ELSE StrRank(a) < StrRank(b)

\* max(a, b), line 210.
PkMax(type, a, b) == IF PkLess(type, a, b) THEN b ELSE a

\* f"'{x}'" (lines 188 and 289): str() of the value between quotes; str(None)
\* is 'None'.
Quoted(x) == "'" \o (IF x = None THEN "None" ELSE x[1]) \o "'"

\* The string a quoted literal denotes.
Unquote(lit) == CHOOSE x \in Strings : Quoted(Some(x)) = lit

\* ------------------------------------------------------ binlog events
\* LogEvent: event_type, table_name (None for a QUERY) and records: the rows
\* of an ADD or REMOVE, the statement of a QUERY.  A statement is its leading
\* keyword (what query.lower().startswith tests), the table it names and
\* whether the converter supports it.
AddEvent(t, rows) ==
    [event_type |-> "ADD_EVENT", table_name |-> Some(t), records |-> rows]

RemoveEvent(t, rows) ==
    [event_type |-> "REMOVE_EVENT", table_name |-> Some(t), records |-> rows]

QueryEvent(verb, t, supported) ==
    [event_type |-> "QUERY", table_name |-> None,
     records |-> [verb |-> verb, table |-> t, supported |-> supported]]

\* The events the source may write.
LogEvents ==
    { AddEvent("u", <<<<1, "b">>>>),
      AddEvent("u", <<<<1, "c">>, <<2, "c">>>>),
      RemoveEvent("u", <<<<1, "b">>>>),
      AddEvent("s", <<<<"Zed", "b">>>>),
      RemoveEvent("s", <<<<"Zed", "b">>>>),
      QueryEvent("alter", "u", TRUE),
      QueryEvent("alter", "u", FALSE),
      QueryEvent("create table", "n", TRUE),
      QueryEvent("drop table", "n", TRUE) }

\* ------------------------------------------------------ collaborators
\* converter.parse_mysql_table_structure / parse_create_table_query and
\* convert_table_structure: the schema pair of a table.  ver counts the
\* ALTERs the structure reflects.
MysqlStructure(t) ==
    [table_name |-> t, primary_key |-> "id", primary_key_idx |-> 1]

ClickhouseStructure(t) ==
    [table_name |-> t, primary_key |-> "id", ver |-> 0,
     fields |-> << [name |-> "id", field_type |-> PkType(t)],
                   [name |-> "val", field_type |-> "String"] >>]

\* converter.convert_records: the row under the target structure; the
\* primary key keeps its value and its place.
convert_records(records, mysql_structure, clickhouse_structure) ==
    [i \in DOMAIN records |->
        <<records[i][1], records[i][2], clickhouse_structure.ver>>]

\* converter.convert_alter_query: the target statement, None when the
\* statement is not supported.
convert_alter_query(query) ==
    IF query.supported THEN Some([alter |-> query.table]) ELSE None

\* The rows of a set in ascending order of primary key.
RECURSIVE SortedRows(_, _)
SortedRows(type, rows) ==
    IF rows = {} THEN <<>>
    ELSE LET least == CHOOSE r \in rows :
                        \A q \in rows \ {r} : PkLess(type, r[1], q[1])
         IN <<least>> \o SortedRows(type, rows \ {least})

\* mysql_api.get_records: up to limit rows of the table in ascending order
\* of primary key, those strictly greater than start_value, all of them when
\* start_value is None.  The start value of a non-integer key is a quoted
\* literal.
get_records(table_name, limit, start_value) ==
    LET type == PkType(table_name)
        from == IF start_value = None THEN None
                ELSE IF HasInt(type) THEN start_value
                ELSE Some(Unquote(start_value[1]))
        rows == {r \in SourceRows(table_name) :
                    from = None \/ PkLess(type, from[1], r[1])}
        sorted == SortedRows(type, rows)
    IN SubSeq(sorted, 1, IF Len(sorted) < limit THEN Len(sorted) ELSE limit)

\* clickhouse_api.insert: the rows replace those of the same primary key.
ch_insert(rows, table_name, records) ==
    [rows EXCEPT ![table_name] =
        MapUpdate(@, [k \in {r[1] : r \in records} |->
                         CHOOSE r \in records : r[1] = k])]

\* clickhouse_api.erase: deletes the rows whose primary key, written as a
\* literal of the column's type, is among field_values.
ch_erase(rows, table_name, field_values) ==
    LET Literal(k) == IF PkType(table_name) = "String"
                      THEN Quoted(Some(k)) ELSE k
    IN [rows EXCEPT ![table_name] =
          MapRemove(@, {k \in DOMAIN @ : Literal(k) \in field_values})]

\* ---------------------------------------------------------- variables
VARIABLES
    pc,                       \* where DbReplicator.run is
    state,                    \* self.state, the fields of class State
    records_to_insert,        \* table_name => {record_id => record}
    records_to_delete,        \* table_name => {record_id, ...}
    touched,                  \* the keys of the two defaultdicts, in order
    last_save_state_time,     \* 0, or 1 once save_state_if_required saved
    last_records_upload_time, \* 0, or 1 once upload_records ran
    table_idx,                \* the for loop of perform_initial_replication
    start_table,              \* its local start_table
    max_primary_key,          \* the local of perform_initial_replication_table
    pos,                      \* data_reader: events read so far
    disk,                     \* the state file: None, or the pickled record
    ch_rows,                  \* target: table => {primary key => row}
    ch_tables,                \* target: the tables that exist
    ch_schema,                \* target: table => ALTERs executed on it
    binlog,                   \* the events the source wrote
    restarts,                 \* times the process was started again
    calls,                    \* the target calls of the last step, in order
    window,                   \* ids ingested since the last flush
    last_flush,               \* None, or <<ids>> the last step flushed
    flushed,                  \* ids whose row effects reached the target
    boot_head,                \* the binlog head the last bootstrap recorded
    resumed,                  \* None, or the snapshot cursor this run loaded
    reads,                    \* table => start values get_records was given
    ended,                    \* "", or what ended the process
    lost,                     \* ids ingested but not flushed at a restart
    ddl_done                  \* ids of the ALTERs executed on the target

vars == <<pc, state, records_to_insert, records_to_delete, touched,
          last_save_state_time, last_records_upload_time, table_idx,
          start_table, max_primary_key, pos, disk, ch_rows, ch_tables,
          ch_schema, binlog, restarts, calls, window, last_flush, flushed,
          boot_head, resumed, reads, ended, lost, ddl_done>>

\* ------------------------------------------------------------- State
\* State.__init__ before load().
NewState ==
    [last_processed_transaction |-> None,
     last_processed_transaction_non_uploaded |-> None,
     status |-> "NONE",
     initial_replication_table |-> None,
     initial_replication_max_primary_key |-> None,
     tables_structure |-> EmptyMap,
     tables |-> <<>>]

\* State.load: the fields of the file; both cursors read the one persisted
\* cursor.  A missing file leaves the fields of __init__.
load(file) ==
    IF file = None THEN NewState
    ELSE LET data == file[1]
         IN [last_processed_transaction |-> data.last_processed_transaction,
             last_processed_transaction_non_uploaded |->
                 data.last_processed_transaction,
             status |-> data.status,
             initial_replication_table |-> data.initial_replication_table,
             initial_replication_max_primary_key |->
                 data.initial_replication_max_primary_key,
             tables_structure |-> data.tables_structure,
             tables |-> data.tables]

\* What State.save pickles.
Pickled(st) ==
    [last_processed_transaction |-> st.last_processed_transaction,
     status |-> st.status,
     initial_replication_table |-> st.initial_replication_table,
     initial_replication_max_primary_key |->
         st.initial_replication_max_primary_key,
     tables_structure |-> st.tables_structure,
     tables |-> st.tables]

\* The replicator's memory and the collaborators a method acts on, as one
\* record m; failed is set once a call raised, ended then names what raised,
\* and the rest of the step is skipped.  current is the transaction id of
\* the event in hand; fault names the kind of target call that raises in
\* this step, "none" when the target answers every call.
Mem ==
    [state |-> state,
     records_to_insert |-> records_to_insert,
     records_to_delete |-> records_to_delete,
     touched |-> touched,
     last_save_state_time |-> last_save_state_time,
     last_records_upload_time |-> last_records_upload_time,
     disk |-> disk,
     ch_rows |-> ch_rows,
     ch_tables |-> ch_tables,
     ch_schema |-> ch_schema,
     calls |-> <<>>,
     window |-> window,
     last_flush |-> None,
     flushed |-> flushed,
     ddl_done |-> ddl_done,
     current |-> 0,
     fault |-> "none",
     ended |-> "",
     failed |-> FALSE]

\* The variables of m after a step.
Store(m) ==
    /\ state' = m.state
    /\ records_to_insert' = m.records_to_insert
    /\ records_to_delete' = m.records_to_delete
    /\ touched' = m.touched
    /\ last_save_state_time' = m.last_save_state_time
    /\ last_records_upload_time' = m.last_records_upload_time
    /\ disk' = m.disk
    /\ ch_rows' = m.ch_rows
    /\ ch_tables' = m.ch_tables
    /\ ch_schema' = m.ch_schema
    /\ calls' = m.calls
    /\ window' = m.window
    /\ last_flush' = m.last_flush
    /\ flushed' = m.flushed
    /\ ddl_done' = m.ddl_done
    /\ ended' = m.ended

\* State.save: the file is replaced by the pickled record.
save(m) == [m EXCEPT !.disk = Some(Pickled(m.state))]

\* save_state_if_required; elapsed: SAVE_STATE_INTERVAL has passed since the
\* last save (it always has since time 0).
save_state_if_required(m, elapsed) ==
    IF m.failed \/ (m.last_save_state_time # 0 /\ ~elapsed) THEN m
    ELSE save([m EXCEPT !.last_save_state_time = 1])

\* defaultdict access: a missing key is added, after the others.
Touch(order, t) == IF t \in Range(order) THEN order ELSE Append(order, t)

\* The target after the calls, in order.
RECURSIVE ApplyCalls(_, _)
ApplyCalls(rows, cs) ==
    IF cs = <<>> THEN rows
    ELSE LET c == Head(cs)
             next == CASE c.op = "insert" -> ch_insert(rows, c.table, c.records)
                       [] c.op = "erase" -> ch_erase(rows, c.table, c.field_values)
                       [] OTHER -> rows
         IN ApplyCalls(next, Tail(cs))

\* ------------------------------------------------------------ Flusher
NoInserts == [t \in AllTables |-> EmptyMap]
NoDeletes == [t \in AllTables |-> {}]

\* A call raised: the step ends there, and with it the process.
Raise(m, what) == [m EXCEPT !.failed = TRUE, !.ended = what]

\* The target kinds of call that may raise in a step.
Faults == {"none", "insert", "erase", "execute"}

\* The first loop of upload_records, lines 354-358: one insert per table
\* with pending inserts, in the order of the dict's keys.
InsertCalls(m) ==
    LET HasInserts(t) == DOMAIN m.records_to_insert[t] # {}
        ins_tables == SelectSeq(m.touched, HasInserts)
    IN [i \in DOMAIN ins_tables |->
          [op |-> "insert", table |-> ins_tables[i],
           records |-> Range(m.records_to_insert[ins_tables[i]])]]

\* The second loop, lines 360-369: one erase per table with pending deletes.
EraseCalls(m) ==
    LET HasDeletes(t) == m.records_to_delete[t] # {}
        del_tables == SelectSeq(m.touched, HasDeletes)
    IN [i \in DOMAIN del_tables |->
          [op |-> "erase", table |-> del_tables[i],
           field_name |->
               m.state.tables_structure[del_tables[i]][1].primary_key,
           field_values |-> m.records_to_delete[del_tables[i]]]]

\* What the flush leaves behind the calls it made, in the ghosts.
Sent(m, cs) ==
    [m EXCEPT !.last_records_upload_time = 1,
              !.calls = @ \o cs,
              !.ch_rows = ApplyCalls(@, cs)]

Flushed(m) ==
    [m EXCEPT !.last_flush =
                  Some(m.window \cup (IF @ = None THEN {} ELSE @[1])),
              !.flushed = @ \cup m.window,
              !.window = {}]

\* upload_records that forgets to replace records_to_delete (line 372).
upload_records_keeps_deletes(m, elapsed) ==
    LET inserts == InsertCalls(m)
        erases == EraseCalls(m)
    IN IF m.fault = "insert" /\ inserts # <<>>
       THEN Raise(Sent(m, <<>>), "flush")
       ELSE IF m.fault = "erase" /\ erases # <<>>
       THEN Raise(Sent(m, inserts), "flush")
       ELSE save_state_if_required(
                [Flushed(Sent(m, inserts \o erases)) EXCEPT
                    !.records_to_insert = NoInserts,
                    !.state.last_processed_transaction =
                        m.state.last_processed_transaction_non_uploaded],
                elapsed)

\* upload_records with the two loops in the other order.
upload_records_erases_first(m, elapsed) ==
    LET inserts == InsertCalls(m)
        erases == EraseCalls(m)
    IN IF m.fault = "erase" /\ erases # <<>>
       THEN Raise(Sent(m, <<>>), "flush")
       ELSE IF m.fault = "insert" /\ inserts # <<>>
       THEN Raise(Sent(m, erases), "flush")
       ELSE save_state_if_required(
                [Flushed(Sent(m, erases \o inserts)) EXCEPT
                    !.records_to_insert = NoInserts,
                    !.records_to_delete = NoDeletes,
                    !.touched = <<>>,
                    !.state.last_processed_transaction =
                        m.state.last_processed_transaction_non_uploaded],
                elapsed)

\* upload_records: one insert per table with pending inserts, then one
\* erase per table with pending deletes, in the order of the dicts' keys;
\* then the buffers are replaced by empty ones, the cursor takes the value
\* of the non-uploaded cursor, and the state is saved if it is time.  A call
\* that raises ends the method there: the calls before it were made.
upload_records(m, elapsed) ==
    LET inserts == InsertCalls(m)
        erases == EraseCalls(m)
    IN IF m.fault = "insert" /\ inserts # <<>>
       THEN Raise(Sent(m, <<>>), "flush")
       ELSE IF m.fault = "erase" /\ erases # <<>>
       THEN Raise(Sent(m, inserts), "flush")
       ELSE save_state_if_required(
                [Flushed(Sent(m, inserts \o erases)) EXCEPT
                    !.records_to_insert = NoInserts,
                    !.records_to_delete = NoDeletes,
                    !.touched = <<>>,
                    !.state.last_processed_transaction =
                        m.state.last_processed_transaction_non_uploaded],
                elapsed)

\* upload_records_if_required; interval: DATA_DUMP_INTERVAL has passed since
\* the last upload (it always has since time 0).
upload_records_if_required(m, table_name, interval, elapsed) ==
    LET t == table_name[1]
        full == /\ table_name # None
                /\ \/ Cardinality(DOMAIN m.records_to_insert[t])
                        >= DATA_DUMP_BATCH_SIZE
                   \/ Cardinality(m.records_to_delete[t])
                        >= DATA_DUMP_BATCH_SIZE
        need_dump == full \/ m.last_records_upload_time = 0 \/ interval
        looked == IF table_name = None THEN m
                  ELSE [m EXCEPT !.touched = Touch(@, t)]
    IN IF need_dump THEN upload_records(looked, elapsed) ELSE looked

\* ----------------------------------------------------- Realtime Applier
\* The loop of handle_insert_event over the converted records.
RECURSIVE InsertLoop(_, _, _, _)
InsertLoop(to_insert, to_delete, records, idx) ==
    IF records = <<>> THEN <<to_insert, to_delete>>
    ELSE LET record == Head(records)
             record_id == record[idx]
         IN InsertLoop(MapUpdate(to_insert, [k \in {record_id} |-> record]),
                       to_delete \ {record_id}, Tail(records), idx)

\* handle_insert_event; an unknown table raises KeyError at line 265.
handle_insert_event(m, event) ==
    LET t == event.table_name[1]
    IN IF t \notin DOMAIN m.state.tables_structure
       THEN Raise(m, "KeyError")
       ELSE LET mysql_table_structure == m.state.tables_structure[t][1]
                clickhouse_table_structure == m.state.tables_structure[t][2]
                records == convert_records(event.records,
                               mysql_table_structure, clickhouse_table_structure)
                done == InsertLoop(m.records_to_insert[t], m.records_to_delete[t],
                               records, mysql_table_structure.primary_key_idx)
            IN [m EXCEPT !.records_to_insert[t] = done[1],
                         !.records_to_delete[t] = done[2],
                         !.touched = Touch(@, t)]

\* The loop of handle_erase_event over keys_to_remove.
RECURSIVE EraseLoop(_, _, _)
EraseLoop(to_insert, to_delete, keys_to_remove) ==
    IF keys_to_remove = <<>> THEN <<to_insert, to_delete>>
    ELSE LET record_id == Head(keys_to_remove)
         IN EraseLoop(MapRemove(to_insert, {record_id}),
                      to_delete \cup {record_id}, Tail(keys_to_remove))

\* keys_to_remove of handle_erase_event: the primary keys of the event's
\* rows, quoted when the target column is a String.
KeysToRemove(records, idx, field_type_ch) ==
    IF field_type_ch = "String"
    THEN [i \in DOMAIN records |-> Quoted(Some(records[i][idx]))]
    ELSE [i \in DOMAIN records |-> records[i][idx]]

\* handle_erase_event; an unknown table raises KeyError at line 282.
handle_erase_event(m, event) ==
    LET t == event.table_name[1]
    IN IF t \notin DOMAIN m.state.tables_structure
       THEN Raise(m, "KeyError")
       ELSE LET table_structure == m.state.tables_structure[t][1]
                table_structure_ch == m.state.tables_structure[t][2]
                primary_key_name_idx == table_structure.primary_key_idx
                field_type_ch ==
                    table_structure_ch.fields[primary_key_name_idx].field_type
                done == EraseLoop(m.records_to_insert[t], m.records_to_delete[t],
                            KeysToRemove(event.records, primary_key_name_idx,
                                         field_type_ch))
            IN [m EXCEPT !.records_to_insert[t] = done[1],
                         !.records_to_delete[t] = done[2],
                         !.touched = Touch(@, t)]

\* clickhouse_api.execute_command of a converted ALTER; the target may
\* refuse it.
execute_command(m, command) ==
    IF m.fault = "execute" THEN Raise(m, "execute")
    ELSE [m EXCEPT !.calls = Append(@, [op |-> "execute",
                                        command |-> command]),
                   !.ch_schema[command.alter] = @ + 1,
                   !.ddl_done = @ \cup {m.current}]

\* handle_alter_query that executes the statement before it uploads.
handle_alter_query_ddl_first(m, query, elapsed) ==
    LET ch_alter_query == convert_alter_query(query)
        executed == IF ch_alter_query = None THEN m
                    ELSE execute_command(m, ch_alter_query[1])
    IN IF executed.failed THEN executed
       ELSE upload_records(executed, elapsed)

\* handle_alter_query that raises on a statement the converter does not
\* support.
handle_alter_query_unsupported_raises(m, query, elapsed) ==
    LET uploaded == upload_records(m, elapsed)
        ch_alter_query == convert_alter_query(query)
    IN IF uploaded.failed THEN uploaded
       ELSE IF ch_alter_query = None THEN Raise(uploaded, "unsupported")
       ELSE execute_command(uploaded, ch_alter_query[1])

\* handle_alter_query: the buffers are uploaded, then the statement is
\* converted and, unless the conversion is None, executed on the target.
handle_alter_query(m, query, elapsed) ==
    LET uploaded == upload_records(m, elapsed)
        ch_alter_query == convert_alter_query(query)
    IN IF uploaded.failed \/ ch_alter_query = None THEN uploaded
       ELSE execute_command(uploaded, ch_alter_query[1])

\* handle_create_table_query: the schema pair enters the registry and the
\* table is created on the target.
handle_create_table_query(m, query) ==
    LET t == query.table
    IN [m EXCEPT !.state.tables_structure =
                     MapUpdate(@, [k \in {t} |->
                         <<MysqlStructure(t), ClickhouseStructure(t)>>]),
                 !.calls = Append(@, [op |-> "create_table", table |-> t]),
                 !.ch_tables = @ \cup {t}]

\* handle_drop_table_query(self, query) is called with (query, db_name):
\* the call raises TypeError.
handle_drop_table_query(m, query) == Raise(m, "TypeError")

\* handle_query_event: the three tests of the statement's first words, each
\* made in turn.
handle_query_event(m, event, elapsed) ==
    LET query == event.records
        altered == IF query.verb = "alter"
                   THEN handle_alter_query(m, query, elapsed) ELSE m
        created == IF ~altered.failed /\ query.verb = "create table"
                   THEN handle_create_table_query(altered, query) ELSE altered
    IN IF ~created.failed /\ query.verb = "drop table"
       THEN handle_drop_table_query(created, query) ELSE created

\* event_handlers[event.event_type](event)
Dispatch(m, event, elapsed) ==
    CASE event.event_type = "ADD_EVENT" -> handle_insert_event(m, event)
      [] event.event_type = "REMOVE_EVENT" -> handle_erase_event(m, event)
      [] event.event_type = "QUERY" -> handle_query_event(m, event, elapsed)

\* The test of line 232 with < for <=.
IsDuplicate_strict(st, event) ==
    /\ st.last_processed_transaction_non_uploaded # None
    /\ event.transaction_id < st.last_processed_transaction_non_uploaded[1]

\* event.transaction_id <= last_processed_transaction_non_uploaded, when
\* the latter is set.
IsDuplicate(st, event) ==
    /\ st.last_processed_transaction_non_uploaded # None
    /\ event.transaction_id <= st.last_processed_transaction_non_uploaded[1]

\* handle_event
handle_event(m, event, interval, elapsed) ==
    IF IsDuplicate(m.state, event) THEN m
    ELSE LET taken == [m EXCEPT
                 !.state.last_processed_transaction_non_uploaded =
                     Some(event.transaction_id),
                 !.current = event.transaction_id,
                 !.window = @ \cup {event.transaction_id}]
             handled == Dispatch(taken, event, elapsed)
         IN IF handled.failed THEN handled
            ELSE save_state_if_required(
                     upload_records_if_required(handled, event.table_name,
                                                interval, elapsed),
                     elapsed)

\* ------------------------------------------------------- Orchestrator
\* data_reader.set_position: just after the given id, the head for None.
set_position(log, transaction_id) ==
    IF transaction_id = None THEN Len(log) ELSE transaction_id[1]

\* data_reader.get_last_transaction_id: the id of the last event written.
get_last_transaction_id(log) == Some(Len(log))

WithId(e, id) ==
    [transaction_id |-> id, event_type |-> e.event_type,
     table_name |-> e.table_name, records |-> e.records]

NoReads == [t \in AllTables |-> None]

\* A started process: DbReplicator.__init__ with the state file as it is.
Started(file) ==
    /\ pc' = "start"
    /\ state' = load(file)
    /\ records_to_insert' = NoInserts
    /\ records_to_delete' = NoDeletes
    /\ touched' = <<>>
    /\ last_save_state_time' = 0
    /\ last_records_upload_time' = 0
    /\ table_idx' = 1
    /\ start_table' = None
    /\ max_primary_key' = None
    /\ pos' = 0
    /\ calls' = <<>>
    /\ window' = {}
    /\ last_flush' = None
    /\ reads' = NoReads
    /\ resumed' = IF load(file).status = "PERFORMING_INITIAL_REPLICATION"
                  THEN Some([table |-> load(file).initial_replication_table,
                             max_primary_key |->
                                load(file).initial_replication_max_primary_key])
                  ELSE None

Init ==
    /\ pc = "start"
    /\ state = NewState
    /\ records_to_insert = NoInserts
    /\ records_to_delete = NoDeletes
    /\ touched = <<>>
    /\ last_save_state_time = 0
    /\ last_records_upload_time = 0
    /\ table_idx = 1
    /\ start_table = None
    /\ max_primary_key = None
    /\ pos = 0
    /\ disk = None
    /\ ch_rows = NoInserts
    /\ ch_tables = {}
    /\ ch_schema = [t \in AllTables |-> 0]
    /\ binlog = <<>>
    /\ restarts = 0
    /\ calls = <<>>
    /\ window = {}
    /\ last_flush = None
    /\ flushed = {}
    /\ boot_head = 0
    /\ resumed = None
    /\ reads = NoReads
    /\ ended = ""
    /\ lost = {}
    /\ ddl_done = {}

\* The source commits a change: an event is appended to the binlog.  The
\* replicator looks at the binlog when it starts (get_last_transaction_id,
\* set_position) and in the realtime loop only, so a write made while it
\* creates structures or snapshots is taken at the next such point.
SourceWrite(e) ==
    /\ Len(binlog) < MaxLog
    /\ pc \in {"start", "realtime", "exited"}
    /\ binlog' = Append(binlog, WithId(e, Len(binlog) + 1))
    /\ UNCHANGED <<pc, state, records_to_insert, records_to_delete, touched,
                   last_save_state_time, last_records_upload_time, table_idx,
                   start_table, max_primary_key, pos, disk, ch_rows,
                   ch_tables, ch_schema, restarts, calls, window, last_flush,
                   flushed, boot_head, lost, resumed, reads, ended,
                   ddl_done>>

\* The process is killed, or has exited on an error, and is started again.
\* What it had ingested and not flushed is gone with its memory.
Restart ==
    /\ pc # "start"
    /\ restarts < MaxRestarts
    /\ restarts' = restarts + 1
    /\ Started(disk)
    /\ lost' = window
    /\ ended' = IF pc = "exited" THEN ended ELSE "killed"
    /\ UNCHANGED <<disk, ch_rows, ch_tables, ch_schema, binlog, flushed,
                   boot_head, ddl_done>>

\* run without the tests of the persisted status, lines 117-123.
Bootstrap_any_status ==
    /\ pc = "start"
    /\ LET m == [Mem EXCEPT
                   !.calls = <<[op |-> "recreate_database"]>>,
                   !.ch_rows = NoInserts,
                   !.ch_tables = {},
                   !.ch_schema = [t \in AllTables |-> 0],
                   !.flushed = {},
                   !.ddl_done = {},
                   !.state.tables = Tables,
                   !.state.last_processed_transaction =
                       get_last_transaction_id(binlog)]
       IN Store(save(m))
    /\ boot_head' = Len(binlog)
    /\ pc' = "structures"
    /\ UNCHANGED <<table_idx, start_table, max_primary_key, pos, binlog,
                   restarts, resumed, reads, lost>>

\* run, lines 125-130: the target database is recreated, the tables and
\* the binlog head are recorded and the state is saved.
Bootstrap ==
    /\ pc = "start"
    /\ state.status \notin {"RUNNING_REALTIME_REPLICATION",
                            "PERFORMING_INITIAL_REPLICATION"}
    /\ LET m == [Mem EXCEPT
                   !.calls = <<[op |-> "recreate_database"]>>,
                   !.ch_rows = NoInserts,
                   !.ch_tables = {},
                   !.ch_schema = [t \in AllTables |-> 0],
                   !.flushed = {},
                   !.ddl_done = {},
                   !.state.tables = Tables,
                   !.state.last_processed_transaction =
                       get_last_transaction_id(binlog)]
       IN Store(save(m))
    /\ boot_head' = Len(binlog)
    /\ pc' = "structures"
    /\ UNCHANGED <<table_idx, start_table, max_primary_key, pos, binlog,
                   restarts, resumed, reads, lost>>

\* create_initial_structure_table for the tables of a sequence, in order.
RECURSIVE CreateTables(_, _)
CreateTables(m, tables) ==
    IF tables = <<>> THEN m
    ELSE LET table == Head(tables)
         IN CreateTables(
              [m EXCEPT !.state.tables_structure =
                            MapUpdate(@, [k \in {table} |->
                                <<MysqlStructure(table),
                                  ClickhouseStructure(table)>>]),
                        !.calls = Append(@, [op |-> "create_table",
                                             table |-> table]),
                        !.ch_tables = @ \cup {table}],
              Tail(tables))

\* create_initial_structure
CreateInitialStructure ==
    /\ pc = "structures"
    /\ LET m == [Mem EXCEPT !.state.status = "CREATING_INITIAL_STRUCTURES"]
       IN Store(save(CreateTables(m, m.state.tables)))
    /\ pc' = "snapshot_begin"
    /\ UNCHANGED <<table_idx, start_table, max_primary_key, pos, binlog,
                   restarts, boot_head, lost, resumed, reads>>

\* perform_initial_replication, lines 151-154, entered from run either
\* after create_initial_structure or on a start in the persisted status.
PerformInitialReplication ==
    /\ \/ pc = "snapshot_begin"
       \/ pc = "start" /\ state.status = "PERFORMING_INITIAL_REPLICATION"
    /\ LET m == [Mem EXCEPT
                   !.state.status = "PERFORMING_INITIAL_REPLICATION"]
       IN Store(save(m))
    /\ start_table' = state.initial_replication_table
    /\ table_idx' = 1
    /\ pc' = "snapshot"
    /\ UNCHANGED <<max_primary_key, pos, binlog, restarts, boot_head, lost,
                   resumed, reads>>

\* The for loop of perform_initial_replication: a table other than
\* start_table is passed over.
SkipTable ==
    /\ pc = "snapshot"
    /\ table_idx <= Len(state.tables)
    /\ start_table # None
    /\ state.tables[table_idx] # start_table[1]
    /\ table_idx' = table_idx + 1
    /\ calls' = <<>>
    /\ last_flush' = None
    /\ ended' = ""
    /\ UNCHANGED <<pc, state, records_to_insert, records_to_delete, touched,
                   last_save_state_time, last_records_upload_time,
                   start_table, max_primary_key, pos, disk, ch_rows,
                   ch_tables, ch_schema, binlog, restarts, window, flushed,
                   boot_head, lost, resumed, reads, ddl_done>>

\* perform_initial_replication_table, lines 161-182: the table is continued
\* from the saved key, or started and the state saved.
EnterTable ==
    /\ pc = "snapshot"
    /\ table_idx <= Len(state.tables)
    /\ LET table_name == state.tables[table_idx]
       IN /\ start_table # None => table_name = start_table[1]
          /\ IF state.initial_replication_table = Some(table_name)
             THEN /\ max_primary_key' =
                        state.initial_replication_max_primary_key
                  /\ Store(Mem)
             ELSE /\ max_primary_key' = None
                  /\ Store(save([Mem EXCEPT
                        !.state.initial_replication_table = Some(table_name),
                        !.state.initial_replication_max_primary_key = None]))
    /\ pc' = "page"
    /\ UNCHANGED <<table_idx, start_table, pos, binlog, restarts, boot_head,
                   lost, resumed, reads>>

\* query_start_value of lines 186-188: the key reached, quoted unless the
\* key type holds 'Int'.
query_start_value(primary_key_type, reached) ==
    IF ~HasInt(primary_key_type) THEN Some(Quoted(reached)) ELSE reached

\* fields.index(primary_key) of lines 177-181.
FieldIndex(fields, name) == CHOOSE i \in DOMAIN fields : fields[i].name = name

\* The loop of lines 205-210 over the records of a page.
RECURSIVE MaxKeyLoop(_, _, _, _)
MaxKeyLoop(type, reached, records, idx) ==
    IF records = <<>> THEN reached
    ELSE LET record_primary_key == Head(records)[idx]
         IN MaxKeyLoop(type,
                IF reached = None THEN Some(record_primary_key)
                ELSE Some(PkMax(type, reached[1], record_primary_key)),
                Tail(records), idx)

\* One turn of the while loop of perform_initial_replication_table, lines
\* 184-213: a page is read after the key reached, converted and inserted,
\* the key reached is raised and the state saved if it is time; an empty
\* page ends the table and the for loop goes on.
SnapshotPage ==
    /\ pc = "page"
    /\ LET table_name == state.tables[table_idx]
           mysql_table_structure == state.tables_structure[table_name][1]
           clickhouse_table_structure == state.tables_structure[table_name][2]
           primary_key_index == FieldIndex(clickhouse_table_structure.fields,
                                    clickhouse_table_structure.primary_key)
           primary_key_type ==
               clickhouse_table_structure.fields[primary_key_index].field_type
           start_value == query_start_value(primary_key_type, max_primary_key)
           records == convert_records(
                          get_records(table_name,
                              INITIAL_REPLICATION_BATCH_SIZE, start_value),
                          mysql_table_structure, clickhouse_table_structure)
           reached == MaxKeyLoop(primary_key_type, max_primary_key, records,
                                 primary_key_index)
       IN /\ reads' = [reads EXCEPT ![table_name] =
                          IF @ = None THEN Some(start_value) ELSE @]
          /\ IF records = <<>>
             THEN /\ Store(Mem)
                  /\ pc' = "snapshot"
                  /\ table_idx' = table_idx + 1
                  /\ start_table' = None
                  /\ UNCHANGED max_primary_key
             ELSE /\ \E elapsed \in BOOLEAN :
                       LET call == [op |-> "insert", table |-> table_name,
                                    records |-> Range(records)]
                           m == [Mem EXCEPT
                                   !.calls = <<call>>,
                                   !.ch_rows = ApplyCalls(@, <<call>>),
                                   !.state.initial_replication_max_primary_key
                                       = reached]
                       IN \E saved \in {save_state_if_required(m, elapsed)} :
                             Store(saved)
                  /\ max_primary_key' = reached
                  /\ UNCHANGED <<pc, table_idx, start_table>>
    /\ UNCHANGED <<pos, binlog, restarts, boot_head, lost, resumed>>

\* run_realtime_replication, lines 216-221, entered from run either after
\* the snapshot or on a start in the persisted status.
RunRealtimeReplication ==
    /\ \/ pc = "snapshot" /\ table_idx > Len(state.tables)
       \/ pc = "start" /\ state.status = "RUNNING_REALTIME_REPLICATION"
    /\ LET m == [Mem EXCEPT !.state.status = "RUNNING_REALTIME_REPLICATION"]
       IN Store(save(m))
    /\ pos' = set_position(binlog, state.last_processed_transaction)
    /\ pc' = "realtime"
    /\ lost' = {}
    /\ UNCHANGED <<table_idx, start_table, max_primary_key, binlog, restarts,
                   boot_head, resumed, reads>>

\* The loop of run_realtime_replication with an event to read: the event
\* is handled; an error ends the process.  faults: the target errors the
\* step may meet.
ReadEvent(faults) ==
    /\ pc = "realtime"
    /\ pos < Len(binlog)
    /\ \E interval \in BOOLEAN, elapsed \in BOOLEAN, fault \in faults :
          \E m \in {handle_event([Mem EXCEPT !.fault = fault],
                                 binlog[pos + 1], interval, elapsed)} :
             /\ Store(m)
             /\ pc' = IF m.failed THEN "exited" ELSE "realtime"
    /\ pos' = pos + 1
    /\ UNCHANGED <<table_idx, start_table, max_primary_key, binlog, restarts,
                   boot_head, lost, resumed, reads>>

HandleEvent == ReadEvent(Faults)

\* The loop with no event to read: after the sleep of READ_LOG_INTERVAL,
\* which is DATA_DUMP_INTERVAL, the buffers are uploaded; an error ends the
\* process.
NoEvent(faults) ==
    /\ pc = "realtime"
    /\ pos = Len(binlog)
    /\ \E elapsed \in BOOLEAN, fault \in faults :
          \E m \in {upload_records_if_required([Mem EXCEPT !.fault = fault],
                                                None, TRUE, elapsed)} :
             /\ Store(m)
             /\ pc' = IF m.failed THEN "exited" ELSE "realtime"
    /\ UNCHANGED <<table_idx, start_table, max_primary_key, pos, binlog,
                   restarts, boot_head, lost, resumed, reads>>

Idle == NoEvent(Faults)

Next ==
    \/ \E e \in LogEvents : SourceWrite(e)
    \/ Restart
    \/ Bootstrap
    \/ CreateInitialStructure
    \/ PerformInitialReplication
    \/ SkipTable
    \/ EnterTable
    \/ SnapshotPage
    \/ RunRealtimeReplication
    \/ HandleEvent
    \/ Idle

Spec == Init /\ [][Next]_vars

\* ------------------------------------------------------------- claims
\* The delete key of primary key k of table t: what handle_erase_event
\* stores and the target's erase matches.
DeleteKey(t, k) == IF PkType(t) = "String" THEN Quoted(Some(k)) ELSE k

IsRowEvent(e) == e.event_type \in {"ADD_EVENT", "REMOVE_EVENT"}

\* C1 (durability): once the replicator replays the binlog, every row event
\* after the binlog head recorded at bootstrap that the reader has passed
\* is in the buffer or has reached the target: the position REALTIME
\* resumes from is never past an event whose rows are not on the target,
\* and no event after the bootstrap head is skipped.
C1_NoEventSkipped ==
    pc = "realtime" =>
        \A i \in 1..Len(binlog) :
            (boot_head < i /\ i <= pos /\ IsRowEvent(binlog[i]))
                => i \in flushed \cup window

\* a <= b on cursors, an unset cursor being below every id.
CursorLeq(a, b) == a = None \/ (b # None /\ a[1] <= b[1])

\* C2 (P1, cursor monotonicity): no step of a run lowers
\* last_processed_transaction or last_processed_transaction_non_uploaded,
\* nor resets a set one to None.
C2_CursorMonotonic ==
    [][restarts' = restarts =>
          /\ CursorLeq(state.last_processed_transaction,
                       state.last_processed_transaction')
          /\ CursorLeq(state.last_processed_transaction_non_uploaded,
                       state.last_processed_transaction_non_uploaded')]_vars

\* C3 (I1): last_processed_transaction <= the non-uploaded cursor in every
\* state, here only where both are set.
C3_CursorOrder ==
    (/\ state.last_processed_transaction # None
     /\ state.last_processed_transaction_non_uploaded # None)
        => state.last_processed_transaction[1]
             <= state.last_processed_transaction_non_uploaded[1]

\* C4 (P2/I2): no primary key of a table is both a key of its pending
\* inserts and, as its delete key, among its pending deletes.
C4_BuffersDisjoint ==
    \A t \in AllTables : \A k \in DOMAIN records_to_insert[t] :
        DeleteKey(t, k) \notin records_to_delete[t]

\* The row events among the ids W that touch primary key k of table t.
Touching(W, t, k) ==
    {i \in W : /\ IsRowEvent(binlog[i])
               /\ binlog[i].table_name = Some(t)
               /\ \E j \in DOMAIN binlog[i].records :
                      binlog[i].records[j][1] = k}

\* The primary keys the row events among the ids W name for table t.
KeysOf(W, t) ==
    UNION {{binlog[i].records[j][1] : j \in DOMAIN binlog[i].records} :
              i \in {x \in W : /\ IsRowEvent(binlog[x])
                                /\ binlog[x].table_name = Some(t)}}

InsertCalled(t, k) ==
    \E i \in DOMAIN calls :
        /\ calls[i].op = "insert"
        /\ calls[i].table = t
        /\ \E r \in calls[i].records : r[1] = k

EraseCalled(t, k) ==
    \E i \in DOMAIN calls :
        /\ calls[i].op = "erase"
        /\ calls[i].table = t
        /\ DeleteKey(t, k) \in calls[i].field_values

\* C5 (P5, coalescing): for every primary key the events of a flush window
\* touched, the flush inserts the row and emits no delete for it when the
\* last event was an ADD, and emits a delete and no insert when it was a
\* REMOVE.
C5_Coalescing ==
    last_flush # None =>
        \A t \in AllTables : \A k \in KeysOf(last_flush[1], t) :
            LET last == CHOOSE i \in Touching(last_flush[1], t, k) :
                            \A j \in Touching(last_flush[1], t, k) : j <= i
            IN IF binlog[last].event_type = "ADD_EVENT"
               THEN InsertCalled(t, k) /\ ~EraseCalled(t, k)
               ELSE EraseCalled(t, k) /\ ~InsertCalled(t, k)

\* C6 (P3, flush atomicity): after a step that flushed, both buffers are
\* empty for every table and last_processed_transaction is the non-uploaded
\* cursor.
C6_FlushAtomicity ==
    last_flush # None =>
        /\ records_to_insert = NoInserts
        /\ records_to_delete = NoDeletes
        /\ state.last_processed_transaction
             = state.last_processed_transaction_non_uploaded

\* A flush that sent buffered rows to the target.
C6_Witness ==
    /\ last_flush # None
    /\ last_flush[1] # {}
    /\ \E i \in DOMAIN calls : calls[i].op \in {"insert", "erase"}

\* The harness of the property tests: the replicator is brought to the
\* realtime loop by the steps of run, and handle_event is then given events
\* with any transaction id, in any order, as a binlog reader that delivers
\* an event again would give them.  binlog records the events given.
FeedEvent(e, id) ==
    /\ pc = "realtime"
    /\ Len(binlog) < MaxLog
    /\ binlog' = Append(binlog, WithId(e, id))
    /\ \E interval \in BOOLEAN, elapsed \in BOOLEAN :
          LET m == handle_event(Mem, WithId(e, id), interval, elapsed)
          IN /\ Store(m)
             /\ pc' = IF m.failed THEN "exited" ELSE "realtime"
    /\ UNCHANGED <<table_idx, start_table, max_primary_key, pos, restarts,
                   boot_head, lost, resumed, reads>>

\* The harness with no event to give: the idle turn of the loop.
FeedIdle ==
    /\ pc = "realtime"
    /\ \E elapsed \in BOOLEAN :
          Store(upload_records_if_required(Mem, None, TRUE, elapsed))
    /\ UNCHANGED <<pc, table_idx, start_table, max_primary_key, pos, binlog,
                   restarts, boot_head, lost, resumed, reads>>

NextFeed ==
    \/ \E e \in LogEvents, id \in 1..MaxLog : FeedEvent(e, id)
    \/ FeedIdle
    \/ Bootstrap
    \/ CreateInitialStructure
    \/ PerformInitialReplication
    \/ EnterTable
    \/ SnapshotPage
    \/ RunRealtimeReplication

SpecFeed == Init /\ [][NextFeed]_vars

\* C7 (P4, duplicate suppression): handling an event whose transaction id
\* is at most a set last_processed_transaction_non_uploaded changes neither
\* the buffers, the registry, the cursors, the state file nor the target,
\* and makes no target call and no flush.
C7_DuplicateSuppressed ==
    [][(/\ Len(binlog') = Len(binlog) + 1
        /\ state.last_processed_transaction_non_uploaded # None
        /\ binlog'[Len(binlog')].transaction_id
             <= state.last_processed_transaction_non_uploaded[1])
         => /\ UNCHANGED <<state, records_to_insert, records_to_delete,
                           disk, ch_rows, ch_tables, ch_schema>>
            /\ calls' = <<>>
            /\ last_flush' = None]_vars

\* An event below the cursor was given to a replicator with pending rows.
C7_Witness ==
    /\ pc = "realtime"
    /\ window # {}
    /\ binlog # <<>>
    /\ state.last_processed_transaction_non_uploaded # None
    /\ binlog[Len(binlog)].transaction_id
         < state.last_processed_transaction_non_uploaded[1]
    /\ \E t \in AllTables : DOMAIN records_to_insert[t] # {}

\* The key a start value denotes.
Denoted(type, start_value) ==
    IF start_value = None \/ HasInt(type) THEN start_value
    ELSE Some(Unquote(start_value[1]))

\* This run loaded a snapshot cursor for table t with a key reached.
ResumedAt(t) ==
    /\ resumed # None
    /\ resumed[1].table = Some(t)
    /\ resumed[1].max_primary_key # None

TablePlace(t) == CHOOSE i \in DOMAIN state.tables : state.tables[i] = t

C10_AlterFlushesFirst ==
    [][(/\ pc = "realtime"
        /\ pos' = pos + 1
        /\ binlog[pos'].event_type = "QUERY"
        /\ binlog[pos'].records.verb = "alter"
        /\ pc' = "realtime"
        /\ ~(/\ state.last_processed_transaction_non_uploaded # None
             /\ binlog[pos'].transaction_id
                  <= state.last_processed_transaction_non_uploaded[1]))
         => /\ \A t \in AllTables :
                  DOMAIN records_to_insert[t] # {} =>
                     \E i \in DOMAIN calls' :
                        /\ calls'[i].op = "insert"
                        /\ calls'[i].table = t
                        /\ calls'[i].records = Range(records_to_insert[t])
            /\ \A t \in AllTables :
                  records_to_delete[t] # {} =>
                     \E i \in DOMAIN calls' :
                        /\ calls'[i].op = "erase"
                        /\ calls'[i].table = t
                        /\ calls'[i].field_values = records_to_delete[t]
            /\ \A i \in DOMAIN calls', j \in DOMAIN calls' :
                  (/\ calls'[i].op = "execute"
                   /\ calls'[j].op \in {"insert", "erase"}) => j < i
            /\ binlog[pos'].records.supported
                  => \E i \in DOMAIN calls' : calls'[i].op = "execute"
            /\ records_to_insert' = NoInserts
            /\ records_to_delete' = NoDeletes]_vars

\* An ALTER was handled with rows in the buffer: the step sent them and
\* then executed the statement.
C10_Witness ==
    \E i \in DOMAIN calls, j \in DOMAIN calls :
        /\ i < j
        /\ calls[i].op \in {"insert", "erase"}
        /\ calls[j].op = "execute"

\* The step reads the next event of the binlog, one the duplicate test
\* lets through.
Handles(e) ==
    /\ pc = "realtime"
    /\ pos' = pos + 1
    /\ binlog[pos'] = e
    /\ ~(/\ state.last_processed_transaction_non_uploaded # None
         /\ e.transaction_id
              <= state.last_processed_transaction_non_uploaded[1])

IsAlter(e) == e.event_type = "QUERY" /\ e.records.verb = "alter"

\* C11 (unsupported ALTER is skipped): handling an ALTER the converter
\* returns None for, with no error from the flush it forces, executes no
\* statement on the target, raises nothing, so that the loop goes on to the
\* next event, and leaves last_processed_transaction_non_uploaded at the
\* event's transaction id.
C11_UnsupportedAlterSkipped ==
    [][\A i \in 1..Len(binlog) :
          (/\ Handles(binlog[i])
           /\ IsAlter(binlog[i])
           /\ convert_alter_query(binlog[i].records) = None
           /\ ended' # "flush")
            => /\ \A j \in DOMAIN calls' : calls'[j].op # "execute"
               /\ UNCHANGED <<ch_schema, ddl_done>>
               /\ pc' = "realtime"
               /\ ended' = ""
               /\ state'.last_processed_transaction_non_uploaded
                    = Some(binlog[i].transaction_id)]_vars

\* An unsupported ALTER was handled and the row event after it was taken.
C11_Witness ==
    /\ pc = "realtime"
    /\ pos = 2
    /\ IsAlter(binlog[1])
    /\ convert_alter_query(binlog[1].records) = None
    /\ boot_head = 0
    /\ IsRowEvent(binlog[2])
    /\ 2 \in window \cup flushed
    /\ ch_schema["u"] = 0

IsDropTable(e) == e.event_type = "QUERY" /\ e.records.verb = "drop table"

\* C12 (DROP TABLE is accepted and ignored): handling a DROP TABLE raises
\* nothing, so that the loop goes on to the events after it, executes and
\* creates nothing on the target, leaves the registry as it is and, unless
\* the step ends with a flush, the buffers too.
C12_DropTableIgnored ==
    [][\A i \in 1..Len(binlog) :
          (/\ Handles(binlog[i])
           /\ IsDropTable(binlog[i])
           /\ ended' # "flush")
            => /\ pc' = "realtime"
               /\ ended' = ""
               /\ \A j \in DOMAIN calls' :
                     calls'[j].op \notin {"execute", "create_table"}
               /\ state'.tables_structure = state.tables_structure
               /\ last_flush' = None
                     => UNCHANGED <<records_to_insert, records_to_delete,
                                    ch_rows>>]_vars

\* The place of a status in the order of the phases.
PhaseRank(status) ==
    CASE status = "NONE" -> 0
      [] status = "CREATING_INITIAL_STRUCTURES" -> 1
      [] status = "PERFORMING_INITIAL_REPLICATION" -> 2
      [] status = "RUNNING_REALTIME_REPLICATION" -> 3

\* A call of the step that recreates the database or creates a table of
\* the initial structure.
Recreates(cs) ==
    \E j \in DOMAIN cs : cs[j].op \in {"recreate_database", "create_table"}

\* C13 (phase progression): within a run the status never moves backward
\* and advances one phase at a time.  A process started in the persisted
\* snapshot status goes to the snapshot and, until the realtime loop,
\* neither recreates the database nor creates a table; one started in the
\* persisted realtime status goes to the realtime loop, reading from the
\* persisted last_processed_transaction, and the realtime loop never reads
\* the source's tables nor returns to an earlier phase.
C13_PhaseProgression ==
    [][restarts' = restarts =>
         /\ PhaseRank(state.status) <= PhaseRank(state'.status)
         /\ PhaseRank(state'.status) <= PhaseRank(state.status) + 1
         /\ (/\ pc = "start" /\ pc' # "start"
             /\ state.status = "PERFORMING_INITIAL_REPLICATION")
              => /\ pc' = "snapshot"
                 /\ ~Recreates(calls')
                 /\ state'.tables_structure = state.tables_structure
         /\ pc \in {"snapshot", "page"}
              => /\ pc' \in {"snapshot", "page", "realtime"}
                 /\ ~Recreates(calls')
                 /\ UNCHANGED ch_tables
         /\ (/\ pc = "start" /\ pc' # "start"
             /\ state.status = "RUNNING_REALTIME_REPLICATION")
              => /\ pc' = "realtime"
                 /\ calls' = <<>>
                 /\ UNCHANGED <<reads, ch_rows, ch_tables>>
                 /\ state.last_processed_transaction # None
                      => pos' = state.last_processed_transaction[1]
         /\ pc \in {"realtime", "exited"}
              => /\ pc' \in {"realtime", "exited"}
                 /\ UNCHANGED reads]_vars

\* A process started again in the persisted realtime status has come to
\* the realtime loop with no read of the source's tables, at the persisted
\* cursor.
C13_Witness ==
    /\ restarts > 0
    /\ pc = "realtime"
    /\ resumed = None
    /\ reads = NoReads
    /\ boot_head < Len(binlog)
    /\ state.last_processed_transaction # None
    /\ pos = state.last_processed_transaction[1]
    /\ calls = <<>>

\* The step executed a converted statement on the target.
Executed(cs) == \E j \in DOMAIN cs : cs[j].op = "execute"

\* C14 (registry update on ALTER): handling an ALTER whose converted
\* statement was executed on the target replaces the registry entry of the
\* altered table by the schema pair after the ALTER; when the conversion is
\* None or the target raised, the registry stays as it is.
C14_RegistryUpdatedOnAlter ==
    [][\A i \in 1..Len(binlog) :
          (Handles(binlog[i]) /\ IsAlter(binlog[i]))
            => LET t == binlog[i].records.table
               IN IF Executed(calls')
                  THEN state'.tables_structure[t][2].ver
                         = state.tables_structure[t][2].ver + 1
                  ELSE state'.tables_structure = state.tables_structure]_vars

\* C15 (snapshot completion clears the cursor): once the status is the
\* realtime one, initial_replication_table and
\* initial_replication_max_primary_key are None in the state, and in the
\* state file once it holds that status.
C15_SnapshotCursorCleared ==
    /\ state.status = "RUNNING_REALTIME_REPLICATION"
         => /\ state.initial_replication_table = None
            /\ state.initial_replication_max_primary_key = None
    /\ (disk # None /\ disk[1].status = "RUNNING_REALTIME_REPLICATION")
         => /\ disk[1].initial_replication_table = None
            /\ disk[1].initial_replication_max_primary_key = None

\* C16 (flush failure leaves the cursor untouched): a step in which a target
\* call of the flush raised leaves last_processed_transaction and the state
\* file as they were, and the process started after it positions the reader
\* before every event of the failed window.
C16_FlushFailureKeepsCursor ==
    [][/\ ended' = "flush" /\ pc = "realtime"
          => /\ pc' = "exited"
             /\ state'.last_processed_transaction
                  = state.last_processed_transaction
             /\ disk' = disk
       /\ (ended = "flush" /\ pc = "start" /\ pc' = "realtime")
          => \A id \in lost : pos' < id]_vars

\* The calls of kind op for table t among cs.
CallsOf(cs, op, t) == {j \in DOMAIN cs : cs[j].op = op /\ cs[j].table = t}

\* C17 (flush ordering): the calls of a step that flushed have every insert
\* before every erase, at most one insert and one erase per table and none
\* with nothing to send; a flush of the buffers as the step found them (the
\* idle flush, the flush an ALTER forces) makes exactly one insert call for
\* each table with pending inserts and one erase call for each table with
\* pending deletes, and no call for the other tables; and when a call of
\* the flush raised, the cursor has not been advanced.
C17_FlushOrdering ==
    [][pc = "realtime" =>
         /\ last_flush' # None =>
              /\ \A i \in DOMAIN calls', j \in DOMAIN calls' :
                    (calls'[i].op = "insert" /\ calls'[j].op = "erase")
                       => i < j
              /\ \A t \in AllTables :
                    /\ Cardinality(CallsOf(calls', "insert", t)) <= 1
                    /\ Cardinality(CallsOf(calls', "erase", t)) <= 1
                    /\ \A j \in CallsOf(calls', "insert", t) :
                          calls'[j].records # {}
                    /\ \A j \in CallsOf(calls', "erase", t) :
                          calls'[j].field_values # {}
         /\ (/\ last_flush' # None
             /\ \/ pos' = pos /\ binlog' = binlog /\ restarts' = restarts
                \/ \E i \in 1..Len(binlog) :
                      Handles(binlog[i]) /\ IsAlter(binlog[i]))
              => \A t \in AllTables :
                    /\ Cardinality(CallsOf(calls', "insert", t))
                         = IF DOMAIN records_to_insert[t] # {} THEN 1 ELSE 0
                    /\ Cardinality(CallsOf(calls', "erase", t))
                         = IF records_to_delete[t] # {} THEN 1 ELSE 0
         /\ ended' = "flush"
              => state'.last_processed_transaction
                   = state.last_processed_transaction]_vars

\* A flush made an insert call and an erase call.
C17_Witness ==
    /\ last_flush # None
    /\ pc = "realtime"
    /\ \E i \in DOMAIN calls, j \in DOMAIN calls :
          calls[i].op = "insert" /\ calls[j].op = "erase"

\* A run with no kill and no target error: the steps of the replicator,
\* which is one thread that runs on until an exception leaves run, and the
\* writes of the source.
HandleEventOk == ReadEvent({"none"})

IdleOk == NoEvent({"none"})

Setup ==
    \/ Bootstrap
    \/ CreateInitialStructure
    \/ PerformInitialReplication
    \/ EnterTable
    \/ RunRealtimeReplication

NextLive ==
    \/ \E e \in LogEvents : SourceWrite(e)
    \/ Setup
    \/ SnapshotPage
    \/ HandleEventOk
    \/ IdleOk

\* Weak fairness of SnapshotPage and of HandleEventOk, with ENABLED written
\* out: a page step is possible exactly at pc = "page" and an event step
\* exactly when the loop has an event to read, and each changes the state
\* (the key reached or pc, and pos).
FairPage == ([]<>~(pc = "page")) \/ ([]<><<SnapshotPage>>_vars)

FairRead ==
    \/ []<>~(pc = "realtime" /\ pos < Len(binlog))
    \/ []<><<HandleEventOk>>_vars

\* The thread is not held up: every step it can take it takes.
SpecLive ==
    /\ Init
    /\ [][NextLive]_vars
    /\ WF_vars(Setup)
    /\ WF_vars(IdleOk)
    /\ FairPage
    /\ FairRead

\* C18 (buffered events are eventually flushed): with no kill and no target
\* error, every row event taken into the buffers is eventually uploaded,
\* with last_processed_transaction at or past its transaction id.
C18_EventuallyFlushed ==
    \A id \in 1..MaxLog :
        (id \in window /\ IsRowEvent(binlog[id]))
            ~> (/\ id \in flushed
                /\ state.last_processed_transaction # None
                /\ state.last_processed_transaction[1] >= id)

\* C19 (restart state): the state file holds neither the non-uploaded
\* cursor nor the buffers; a process started on a state file has its
\* non-uploaded cursor at the persisted last_processed_transaction and empty
\* buffers; and when it comes to the realtime loop the reader is before
\* every row event the ended process had buffered and not flushed, none of
\* them at or below the non-uploaded cursor.
C19_RestartState ==
    /\ [](disk # None =>
            DOMAIN disk[1] \cap {"last_processed_transaction_non_uploaded",
                                 "records_to_insert", "records_to_delete"}
               = {})
    /\ []((pc = "start" /\ disk # None) =>
            /\ state.last_processed_transaction_non_uploaded
                 = disk[1].last_processed_transaction
            /\ records_to_insert = NoInserts
            /\ records_to_delete = NoDeletes)
    /\ [][(pc = "start" /\ pc' = "realtime") =>
            \A id \in lost :
               IsRowEvent(binlog[id]) =>
                  /\ pos' < id
                  /\ ~IsDuplicate(state', binlog[id])]_vars

\* C20 (DDL is not lost by a crash): every ALTER the converter supports,
\* written after the binlog head of the bootstrap, whose transaction id is
\* at or below the persisted last_processed_transaction has been executed
\* on the target.
C20_DdlNotLost ==
    (disk # None /\ disk[1].last_processed_transaction # None) =>
        \A i \in 1..Len(binlog) :
            (/\ boot_head < i
             /\ IsAlter(binlog[i])
             /\ convert_alter_query(binlog[i].records) # None
             /\ i <= disk[1].last_processed_transaction[1])
                => i \in ddl_done

====
